---- MODULE Spec2Model ----
(***************************************************************************)
(* Model of the GUI worker of the kuaishou video scraper                   *)
(* (src/gui_app.py, class WorkerThread): process_videos fans one record    *)
(* pipeline per input row out under an asyncio.Semaphore, each pipeline    *)
(* runs a fetch loop with at most max_retries attempts and writes its      *)
(* result into its own row of the DataFrame; stop() clears is_running      *)
(* from the GUI thread.                                                    *)
(*                                                                         *)
(* One step of a record pipeline is the code between two suspension        *)
(* points (await) of its coroutine: the event loop runs it atomically      *)
(* with respect to the other pipelines.  stop() runs in another thread     *)
(* and may be interleaved anywhere: the one place where that shows is      *)
(* between the last read of is_running and session.get, which is why the   *)
(* request is a step of its own.                                           *)
(*                                                                         *)
(* The field mappers and the resolvers (parse_kuaishou_api.py,             *)
(* extract_video_id.py, main_workflow.py and their copies in gui_app.py)   *)
(* are functions of a document or of a URL; they are modelled as           *)
(* operators and applied one call at a time in SpecMapper / SpecResolver.  *)
(***************************************************************************)
EXTENDS Integers, Sequences, FiniteSets, TLC

\* ---------------------------------------------------------------- bounds
NumRecords == 2          \* rows of the input sheet
MaxN == 2                \* largest concurrency limit tried (1..MaxN)

\* ------------------------------------------------------ program constants
max_retries == 3         \* gui_app.py:199 and :361

Pending == "pending"     \* '待处理'
Success == "success"     \* '成功'
Failed  == "failed"      \* '失败'
Unset   == "unset"       \* the column does not exist yet
None    == "None"        \* a cell holding None
EmptyStr == ""
NaN == 0                 \* a missing link / a missing userName cell

\* '找不到视频，已被删除或下架', as written at each place of the fetch loops
ReasonNon200    == "not found, deleted or removed"
ReasonNoInfo    == "not found, deleted or removed"
ReasonNoJson    == "not found, deleted or removed"
ReasonTimeoutMut == "request timed out"
ReasonTimeout   == "not found, deleted or removed"
ReasonException == "not found, deleted or removed"
WithIdReasonNon200   == "not found, deleted or removed"
WithIdReasonNoInfo   == "not found, deleted or removed"
WithIdReasonNoJson   == "not found, deleted or removed"
WithIdReasonRetries  == "not found, deleted or removed"
WithIdReasonTimeout  == "not found, deleted or removed"
WithIdReasonException == "not found, deleted or removed"

NumericId == "123456789012345"   \* a photoId of 15 digits found in the HTML

Rows == 1..NumRecords
FetchLoops == {"from_url", "with_id"}

\* ------------------------------------------------------- attempt outcomes
\* What one session.get attempt can end in.  kind:
\*   timeout  asyncio.TimeoutError          error   any other exception
\*   http     a response, status # 200      nojson  200, extract_json_from_html -> None
\*   noinfo   200, extract_video_info -> None
\*   ok       200 with a photo/counts subtree; numeric_photo_ids is what the
\*            regex finds in the HTML, likeFmt tells whether likeCount can be
\*            formatted with ':,' (it cannot when it is a string or null),
\*            hasUserName whether photo.userName is something else than
\*            JSON null
FailKinds == {"timeout", "error", "http", "nojson", "noinfo"}
Outcomes ==
    {[kind |-> k, numeric_photo_ids |-> <<>>, likeFmt |-> TRUE,
      hasUserName |-> TRUE] : k \in FailKinds}
    \cup {[kind |-> "ok", numeric_photo_ids |-> ids, likeFmt |-> f,
           hasUserName |-> TRUE] :
             ids \in {<<>>, <<NumericId>>}, f \in BOOLEAN}

\* the pages whose photo.userName is JSON null
NullUserName ==
    {[kind |-> "ok", numeric_photo_ids |-> <<>>, likeFmt |-> f,
      hasUserName |-> FALSE] : f \in BOOLEAN}

VARIABLES
    fetcher,        \* which fetch loop the record pipelines run
    max_concurrent, \* self.max_concurrent
    is_running,     \* self.is_running
    main,           \* position of process_videos
    cursor,         \* next row of the dispatch loop (df.iterrows)
    permits,        \* value of the asyncio.Semaphore
    pc,             \* position of each record pipeline
    retry_count,    \* retry_count of each fetch loop
    requests,       \* session.get calls issued per record
    pauses,         \* asyncio.sleep(0.5) calls per record
    seen,           \* history of the record's attempt outcomes, see Track
    finished,       \* history of the order of completion, see Returned
    df,             \* the DataFrame rows
    output,         \* prepare_output_dataframe's result (<<>> before)
    progress,       \* completedCount of the latest progress_updated event
    cancel,         \* history of the run since stop(), see Changed
    call,           \* one call of a mapper or resolver function, see NoCall
    window          \* the MainWindow and its worker threads, see NoWindow

vars == <<fetcher, max_concurrent, is_running, main, cursor, permits, pc,
          retry_count, requests, pauses, seen, finished, df,
          output, progress, cancel, call, window>>

\* ------------------------------------------------------------------ rows
\* A row after pd.read_excel and df['链接'] = ...: the result columns do not
\* exist yet.
InputRow(link) ==
    [link |-> link, status |-> Unset, reason |-> Unset,
     photoId |-> None, userName |-> NaN]

\* gui_app.py:119-129
InitColumns(row) ==
    [row EXCEPT !.status = Pending, !.reason = EmptyStr,
                !.photoId = None, !.userName = NaN]

\* The row a pipeline created for index idx writes to; done is the number of
\* pipelines that have already returned.
AtMut(idx, done) == done + 1
At(idx, done) == idx

NumDone == Cardinality({i \in Rows : pc[i] = "done"})

\* extract_video_info's dict for the page o of the video behind row idx:
\* the userName stands for the copied fields (a JSON null is copied as
\* None, which the DataFrame counts as missing); there is no '作品ID' key.
extract_video_info(idx, o) ==
    [userName |-> IF o.hasUserName THEN idx ELSE NaN]

\* gui_app.py:279-283
api_photo_id(o) ==
    IF o.numeric_photo_ids # <<>> THEN Head(o.numeric_photo_ids) ELSE EmptyStr

\* History of a record's attempts, kept for the properties only and only in
\* the runs that start with "none": "none" before the first outcome;
\* "nojson" or "noinfo" when the latest outcome is that one; "timeout" or
\* "http" when every outcome so far was that one; "other" otherwise.
PayloadAbsent == {"nojson", "noinfo"}
Uniform == {"timeout", "http"}

Track(i, k) ==
    seen' = [seen EXCEPT ![i] =
                IF @ = "untracked" THEN @
                ELSE IF k \in PayloadAbsent THEN k
                ELSE IF k \in Uniform /\ (@ = "none" \/ @ = k) THEN k
                ELSE "other"]

\* The mapper and resolver functions are modelled on their own, one call at
\* a time: fn names the function ("" before the call), arg its arguments,
\* ret is <<>> until it has returned and <<value>> afterwards.  The worker
\* runs hold no such call.
NoCall == [fn |-> "", arg |-> <<>>, ret |-> <<>>, requests |-> 0]

\* The MainWindow, with its worker threads reduced to what the window reads
\* of them and what they send it. worker is self.worker (0 for None);
\* threads tells of every WorkerThread whether it was created, whether it
\* executes run() ("running" with is_running True, "stopping" with
\* is_running False) or has ended; signals are the task_finished and
\* error_occurred emissions queued for the window's slots; timers are the
\* pending QTimer.singleShot callbacks, each named after the worker that
\* stop_task stopped when it scheduled it; forced is the history of the
\* terminate() calls, as pairs of the timer's name and the worker
\* terminated; raised tells that a slot ended in an exception.
MaxWorkers == 3
Workers == 1 .. MaxWorkers
NoWindow ==
    [worker |-> 0, start_btn |-> TRUE, stop_btn |-> FALSE,
     threads |-> [w \in Workers |-> "none"], signals |-> <<>>,
     timers |-> {}, forced |-> {}, raised |-> FALSE]

\* The pipelines that hold a permit of the semaphore: between the
\* acquisition and the return from fetch_video_info_*.
Holding == {i \in Rows : pc[i] \in {"checked", "req", "sleep"}}

\* History of a cancelled run, kept for the properties only and only in the
\* runs that start with tracked = TRUE: held is the set of pipelines that
\* held a permit when stop() cleared the flag, changed the set of rows
\* whose status was written to another value since then.
NoCancel(tracked) == [tracked |-> tracked, held |-> {}, changed |-> {}]

Changed ==
    cancel' =
        IF cancel.tracked /\ ~is_running
        THEN [cancel EXCEPT !.changed =
                 @ \cup {r \in Rows : df'[r].status # df[r].status}]
        ELSE cancel

\* ------------------------------------------------------------------ init
InitCommon ==
    /\ max_concurrent \in 1..MaxN
    /\ is_running = TRUE
    /\ main = "start"
    /\ cursor = 1
    /\ permits = 0
    /\ pc = [i \in Rows |-> "none"]
    /\ retry_count = [i \in Rows |-> 0]
    /\ requests = [i \in Rows |-> 0]
    /\ pauses = [i \in Rows |-> 0]
    /\ \E links \in [Rows -> BOOLEAN] :
          df = [i \in Rows |-> InputRow(IF links[i] THEN i ELSE NaN)]
    /\ output = <<>>
    /\ progress = <<>>
    /\ call = NoCall
    /\ window = NoWindow

Tracked == [i \in Rows |-> "none"]
Untracked == [i \in Rows |-> "untracked"]

Init ==
    InitCommon /\ fetcher = "from_url" /\ seen = Tracked
               /\ finished = "untracked" /\ cancel = NoCancel(FALSE)
InitWithId ==
    InitCommon /\ fetcher = "with_id" /\ seen = Tracked
               /\ finished = "untracked" /\ cancel = NoCancel(FALSE)
InitBoth ==
    InitCommon /\ fetcher \in FetchLoops /\ seen = Untracked
               /\ finished = "untracked" /\ cancel = NoCancel(FALSE)
InitOrder ==
    InitCommon /\ fetcher = "from_url" /\ seen = Untracked
               /\ finished = "reverse" /\ cancel = NoCancel(FALSE)
InitProgress ==
    InitCommon /\ fetcher = "from_url" /\ seen = Untracked
               /\ finished = "untracked" /\ cancel = NoCancel(FALSE)
InitCancel ==
    InitCommon /\ fetcher = "from_url" /\ seen = Untracked
               /\ finished = "untracked" /\ cancel = NoCancel(TRUE)

\* ------------------------------------------------------- WorkerThread.stop
\* A stop() after process_videos has returned sets a flag that nothing reads
\* again; it is left out.
stop ==
    /\ is_running
    /\ main \notin {"finished", "cancelled"}
    /\ is_running' = FALSE
    /\ cancel' = IF cancel.tracked THEN [cancel EXCEPT !.held = Holding]
                 ELSE cancel
    /\ UNCHANGED <<fetcher, max_concurrent, main, cursor, permits, finished, pc,
                   retry_count, requests, pauses, seen, df, output, progress,
                   call, window>>

\* ------------------------------------------------------- process_videos
\* lines 113-133: the is_running check, the result columns, the semaphore
Begin ==
    /\ main = "start"
    /\ IF ~is_running
       THEN /\ main' = "cancelled"
            /\ UNCHANGED <<df, permits>>
       ELSE /\ main' = "dispatch"
            /\ df' = [i \in Rows |-> InitColumns(df[i])]
            /\ permits' = max_concurrent
    /\ UNCHANGED <<fetcher, max_concurrent, is_running, cursor, pc, finished,
                   retry_count, requests, pauses, seen, output>>
    /\ UNCHANGED <<progress, cancel, call, window>>

\* lines 137-148: one iteration of the dispatch loop
Dispatch ==
    /\ main = "dispatch"
    /\ cursor <= NumRecords
    /\ IF ~is_running
       THEN /\ main' = "cancelled"
            /\ UNCHANGED <<cursor, pc>>
       ELSE /\ cursor' = cursor + 1
            /\ pc' = [pc EXCEPT ![cursor] =
                        IF df[cursor].link # NaN THEN "created" ELSE @]
            /\ UNCHANGED main
    /\ UNCHANGED <<fetcher, max_concurrent, is_running, permits, finished,
                   retry_count, requests, pauses, seen, df, output>>
    /\ UNCHANGED <<progress, cancel, call, window>>

\* line 152: await asyncio.gather(*tasks)
Gather ==
    /\ main = "dispatch"
    /\ cursor > NumRecords
    /\ main' = "gather"
    /\ UNCHANGED <<fetcher, max_concurrent, is_running, cursor, permits, finished, pc,
                   retry_count, requests, pauses, seen, df, output>>
    /\ UNCHANGED <<progress, cancel, call, window>>

\* lines 814-878
prepare_output_dataframe(d) ==
    [i \in Rows |-> [seq |-> i, link |-> d[i].link, status |-> d[i].status,
                     reason |-> d[i].reason, video_id |-> d[i].photoId,
                     userName |-> d[i].userName]]

\* lines 152-186: gather returns when every task has returned; from there
\* process_videos runs without suspending (and without reading is_running)
\* through prepare_output_dataframe, to_excel and task_finished.emit.
\* gather raises the exception of a task that ended with one: it passes
\* the clause of line 153 (it is no CancelledError) and ends
\* process_videos in the clause of line 185, error_occurred.emit.
GatherReturn ==
    /\ main = "gather"
    /\ \/ \A i \in Rows : pc[i] \in {"none", "done"}
       \/ \E i \in Rows : pc[i] = "raised"
    /\ IF \E i \in Rows : pc[i] = "raised"
       THEN /\ main' = "error"
            /\ UNCHANGED output
       ELSE /\ main' = "finished"
            /\ output' = prepare_output_dataframe(df)
    /\ UNCHANGED <<fetcher, max_concurrent, is_running, cursor, permits, finished, pc,
                   retry_count, requests, pauses, seen, df>>
    /\ UNCHANGED <<progress, cancel, call, window>>

\* ------------------------------------------- process_single_url_async
\* History of the order in which the pipelines return, kept for the
\* properties only and only in the runs that start with "reverse": it stays
\* "reverse" as long as every pipeline returned after all pipelines of the
\* later rows and before all pipelines of the earlier rows.
Live(j) == pc[j] \notin {"none", "done"}

Returned(i) ==
    finished' =
        IF finished = "reverse"
           /\ ~(/\ \A j \in Rows : j > i => ~Live(j)
                /\ \A j \in Rows : (j < i /\ df[j].link # NaN) => Live(j))
        THEN "other"
        ELSE finished

\* leaving 'async with semaphore'
ReturnMut(i) ==
    /\ pc' = [pc EXCEPT ![i] = "done"]
    /\ permits' = permits
    /\ Returned(i)
Return(i) ==
    /\ pc' = [pc EXCEPT ![i] = "done"]
    /\ permits' = permits + 1
    /\ Returned(i)

\* ------------------------------------------- the head of the fetch loops
\* lines 203-206 (365-368): the loop condition and its repeated test.  A
\* pipeline that passed them is committed to the request of line 238: it
\* does not read is_running again before session.get.
ContinueMut(n) == n < max_retries
Continue(n) == n < max_retries /\ is_running

LoopTop(i) ==
    IF Continue(retry_count[i])
    THEN /\ pc' = [pc EXCEPT ![i] = "checked"]
         /\ UNCHANGED <<permits, finished>>
    ELSE Return(i)

\* lines 190-206: async with semaphore; if not self.is_running: return;
\* then the head of the fetch loop.  is_running is read three times on the
\* way (lines 191, 203, 204) and a stop() between two reads ends the
\* pipeline exactly as a stop() before the first.
CanAcquireMut == TRUE
CanAcquire == permits > 0

CancelledMut == FALSE
Cancelled == ~is_running

Acquire(i) ==
    /\ main = "gather"
    /\ pc[i] = "created"
    /\ CanAcquire
    /\ IF Cancelled
       THEN /\ pc' = [pc EXCEPT ![i] = "done"]
            /\ permits' = permits
            /\ Returned(i)
       ELSE /\ pc' = [pc EXCEPT ![i] = "checked"]
            /\ permits' = permits - 1
            /\ UNCHANGED finished
    /\ UNCHANGED <<fetcher, max_concurrent, is_running, main, requests,
                   cursor, retry_count, pauses, seen, df, output>>
    /\ UNCHANGED <<progress, cancel, call, window>>

\* asyncio.sleep(0.5) is over; continue with the loop condition
Wake(i) ==
    /\ pc[i] = "sleep"
    /\ LoopTop(i)
    /\ UNCHANGED <<fetcher, max_concurrent, is_running, main, requests,
                   cursor, retry_count, pauses, seen, df, output>>
    /\ UNCHANGED <<progress, cancel, call, window>>

\* lines 207-244 (369-406): the headers, then session.get.  The pipeline
\* does not suspend between the test of line 204 and this call, but stop()
\* runs in the GUI thread and can fall between them.
Request(i) ==
    /\ pc[i] = "checked"
    /\ pc' = [pc EXCEPT ![i] = "req"]
    /\ requests' = [requests EXCEPT ![i] = @ + 1]
    /\ UNCHANGED <<fetcher, max_concurrent, is_running, main, cursor,
                   permits, retry_count, pauses, seen, finished, df, output>>
    /\ UNCHANGED <<progress, cancel, call, window>>

\* ------------------------------------------------ writes to the own row
SetFailedMut(d, r, why) == d
SetFailedAllMut(d, r, why) ==
    [x \in Rows |-> [d[x] EXCEPT !.status = Failed, !.reason = why]]
SetFailed(d, r, why) ==
    [d EXCEPT ![r].status = Failed, ![r].reason = why]

\* lines 275-297: the info fields, 作品ID, then 解析状态 = '成功'
SetSuccess(d, r, info, id) ==
    [d EXCEPT ![r].userName = info.userName, ![r].photoId = id,
              ![r].status = Success]

\* a branch that ends in 'return'
Terminal(i, d) ==
    /\ df' = d
    /\ Changed
    /\ Return(i)
    /\ UNCHANGED <<retry_count, pauses>>

\* lines 300-301: current = df['作者名字'].notna().sum();
\* progress_updated.emit(current, total), with total = len(df)
notna(d) == Cardinality({r \in Rows : d[r].userName # NaN})
Emit(d) == progress' = <<notna(d), NumRecords>>

\* lines 334-343, 349-357: count the attempt, pause and continue, or give up
GiveUpMut(n) == FALSE
GiveUp(n) == ~(n < max_retries)

RetryMut(i, d, why) ==
    /\ retry_count' = [retry_count EXCEPT ![i] = @ + 1]
    /\ IF ~GiveUp(retry_count[i] + 1)
       THEN /\ pc' = [pc EXCEPT ![i] = "checked"]
            /\ df' = d
            /\ UNCHANGED <<permits, finished, pauses>>
       ELSE /\ df' = SetFailed(d, At(i, NumDone), why)
            /\ Return(i)
            /\ UNCHANGED pauses
    /\ Changed
Retry(i, d, why) ==
    /\ retry_count' = [retry_count EXCEPT ![i] = @ + 1]
    /\ IF ~GiveUp(retry_count[i] + 1)
       THEN /\ pc' = [pc EXCEPT ![i] = "sleep"]
            /\ pauses' = [pauses EXCEPT ![i] = @ + 1]
            /\ df' = d
            /\ UNCHANGED <<permits, finished>>
       ELSE /\ df' = SetFailed(d, At(i, NumDone), why)
            /\ Return(i)
            /\ UNCHANGED pauses
    /\ Changed

\* ------------------------------------------- fetch_video_info_from_url
Responding(i, loop) ==
    /\ fetcher = loop
    /\ pc[i] = "req"
    /\ UNCHANGED <<fetcher, max_concurrent, is_running, main, cursor,
                   requests, output, call, window>>

\* lines 249-254
Non200(i) ==
    /\ Responding(i, "from_url")
    /\ Track(i, "http")
    /\ Terminal(i, SetFailed(df, At(i, NumDone), ReasonNon200))
    /\ UNCHANGED progress

\* lines 314-319
NoJson(i) ==
    /\ Responding(i, "from_url")
    /\ Track(i, "nojson")
    /\ Terminal(i, SetFailed(df, At(i, NumDone), ReasonNoJson))
    /\ UNCHANGED progress

\* lines 308-313
NoInfo(i) ==
    /\ Responding(i, "from_url")
    /\ Track(i, "noinfo")
    /\ Terminal(i, SetFailed(df, At(i, NumDone), ReasonNoInfo))
    /\ UNCHANGED progress

\* The exceptions an attempt raises inside the try block of lines 208-331:
\* the request timeout, a transport error of aiohttp, the ValueError (or
\* TypeError) of the ':,' format of line 305.
ExcTimeout == "asyncio.TimeoutError"
ExcClient == "aiohttp.ClientError"
ExcFormat == "ValueError"

\* line 333: except asyncio.TimeoutError
IsTimeoutError(e) == e = ExcTimeout

\* line 345: except Exception; each of the classes above derives from it
IsExceptionMut(e) == e = ExcClient
IsException(e) == e \in {ExcTimeout, ExcClient, ExcFormat}

\* An exception that no clause catches leaves the coroutine through
\* 'async with semaphore' and ends the task.
Propagate(i, d) ==
    /\ df' = d
    /\ Changed
    /\ pc' = [pc EXCEPT ![i] = "raised"]
    /\ permits' = permits + 1
    /\ Returned(i)
    /\ UNCHANGED <<retry_count, pauses>>

\* lines 333-357: the except clauses in their order
Except(i, e, d) ==
    IF IsTimeoutError(e) THEN Retry(i, d, ReasonTimeout)
    ELSE IF IsException(e) THEN Retry(i, d, ReasonException)
    ELSE Propagate(i, d)

\* lines 271-307
Parsed(i, o) ==
    /\ Responding(i, "from_url")
    /\ o.kind = "ok" /\ o.likeFmt
    /\ Track(i, "ok")
    /\ LET d == SetSuccess(df, At(i, NumDone), extract_video_info(i, o),
                           api_photo_id(o))
       IN  Terminal(i, d) /\ Emit(d)

\* lines 271-306 and 345-357: the f-string of line 303-306 raises after the
\* row was marked and the progress event emitted; 'except Exception' counts
\* the attempt as failed
ParsedLogError(i, o) ==
    /\ Responding(i, "from_url")
    /\ o.kind = "ok" /\ ~o.likeFmt
    /\ Track(i, "ok")
    /\ LET d == SetSuccess(df, At(i, NumDone), extract_video_info(i, o),
                           api_photo_id(o))
       IN  Except(i, ExcFormat, d) /\ Emit(d)

\* lines 333-343
TimeoutError(i) ==
    /\ Responding(i, "from_url")
    /\ Track(i, "timeout")
    /\ Except(i, ExcTimeout, df)
    /\ UNCHANGED progress

\* lines 345-357
ClientError(i) ==
    /\ Responding(i, "from_url")
    /\ Track(i, "error")
    /\ Except(i, ExcClient, df)
    /\ UNCHANGED progress

\* ------------------------------------------- fetch_video_info_with_id
\* lines 568-578: reached after every response that did not end in 'return'
WithIdRetry(i, d, why) ==
    /\ retry_count' = [retry_count EXCEPT ![i] = @ + 1]
    /\ IF retry_count[i] + 1 < max_retries
       THEN /\ pc' = [pc EXCEPT ![i] = "sleep"]
            /\ pauses' = [pauses EXCEPT ![i] = @ + 1]
            /\ df' = d
            /\ UNCHANGED <<permits, finished>>
       ELSE /\ df' = SetFailed(d, At(i, NumDone), why)
            /\ Return(i)
            /\ UNCHANGED pauses
    /\ Changed

\* lines 408-430, then 568-578: the row is marked, the loop goes on
WithIdNon200(i) ==
    /\ Responding(i, "with_id")
    /\ Track(i, "http")
    /\ WithIdRetry(i, SetFailed(df, At(i, NumDone), WithIdReasonNon200),
                   WithIdReasonRetries)
    /\ UNCHANGED progress

\* lines 533-564, then 568-578
WithIdNoJson(i) ==
    /\ Responding(i, "with_id")
    /\ Track(i, "nojson")
    /\ WithIdRetry(i, SetFailed(df, At(i, NumDone), WithIdReasonNoJson),
                   WithIdReasonRetries)
    /\ UNCHANGED progress

\* lines 484-532, then 568-578
WithIdNoInfo(i) ==
    /\ Responding(i, "with_id")
    /\ Track(i, "noinfo")
    /\ WithIdRetry(i, SetFailed(df, At(i, NumDone), WithIdReasonNoInfo),
                   WithIdReasonRetries)
    /\ UNCHANGED progress

\* lines 447-483
WithIdParsed(i, o) ==
    /\ Responding(i, "with_id")
    /\ o.kind = "ok" /\ o.likeFmt
    /\ Track(i, "ok")
    /\ LET d == SetSuccess(df, At(i, NumDone), extract_video_info(i, o),
                           api_photo_id(o))
       IN  Terminal(i, d) /\ Emit(d)

\* lines 447-482 and 592-625
WithIdParsedLogError(i, o) ==
    /\ Responding(i, "with_id")
    /\ o.kind = "ok" /\ ~o.likeFmt
    /\ Track(i, "ok")
    /\ LET d == SetSuccess(df, At(i, NumDone), extract_video_info(i, o),
                           api_photo_id(o))
       IN  WithIdRetry(i, d, WithIdReasonException) /\ Emit(d)

\* lines 580-590
WithIdTimeoutError(i) ==
    /\ Responding(i, "with_id")
    /\ Track(i, "timeout")
    /\ WithIdRetry(i, df, WithIdReasonTimeout)
    /\ UNCHANGED progress

\* lines 592-625
WithIdClientError(i) ==
    /\ Responding(i, "with_id")
    /\ Track(i, "error")
    /\ WithIdRetry(i, df, WithIdReasonException)
    /\ UNCHANGED progress

\* ------------------------------------------------- strings and documents
\* A Python str is the sequence of its characters.
DigitChars == {"0", "1", "2", "3", "4", "5", "6", "7", "8", "9"}
Digits(n, c) == [k \in 1..n |-> c]

\* str.isdigit(): every character is a digit and there is at least one
isdigit(s) == s # <<>> /\ \A k \in 1..Len(s) : s[k] \in DigitChars

\* the longest prefix of s made of digits
RECURSIVE DigitPrefix(_)
DigitPrefix(s) ==
    IF s # <<>> /\ Head(s) \in DigitChars
    THEN <<Head(s)>> \o DigitPrefix(Tail(s))
    ELSE <<>>

MinNumericLen == 15      \* parse_kuaishou_api.py:46, gui_app.py:267

Slug == <<"3", "x", "y", "i", "7", "v">>        \* a slug identifier
Numeric15 == Digits(15, "1")                    \* numeric, 15 digits
Numeric16 == Digits(16, "2")                    \* numeric, 16 digits
Numeric14 == Digits(14, "3")                    \* numeric, too short
DigitSlug == Digits(15, "4") \o <<"x">>         \* 15 digits, then a letter

\* A parsed JSON value: a string, an integer (s holds its decimal digits),
\* an object (items holds its key/value pairs in document order) or an
\* array (items holds its elements).
JStr(s) == [t |-> "str", s |-> s, items |-> <<>>]
JInt(s) == [t |-> "int", s |-> s, items |-> <<>>]
JDict(items) == [t |-> "dict", s |-> <<>>, items |-> items]
JList(items) == [t |-> "list", s |-> <<>>, items |-> items]
Item(k, v) == [k |-> k, v |-> v]

\* str(value); the text of an object or array starts with a bracket
str(value) ==
    IF value.t \in {"str", "int"} THEN value.s
    ELSE IF value.t = "dict" THEN <<"{">> ELSE <<"[">>

\* the truth value of a Python object
Truthy(value) ==
    IF value.t = "str" THEN value.s # <<>>
    ELSE IF value.t = "int" THEN value.s # <<"0">>
    ELSE value.items # <<>>

\* key in d, d.get(key, '') for an object d without repeated keys
HasKey(d, key) == \E n \in 1..Len(d.items) : d.items[n].k = key
Get(d, key) ==
    IF HasKey(d, key)
    THEN d.items[CHOOSE n \in 1..Len(d.items) : d.items[n].k = key].v
    ELSE JStr(<<>>)

\* The documents of window.INIT_STATE tried: a page entry (the value with
\* 'photo' and 'counts') whose photo holds photoId own or no photoId, alone
\* or next to a sibling entry that holds photoId other directly, in an
\* element of an array, or inside an object that is itself the value of a
\* photoId key; and a document without page entry.
Scalars ==
    {JStr(Numeric15), JInt(Numeric16), JStr(Numeric14), JStr(Slug),
     JStr(DigitSlug)}

PageEntry(own) ==
    Item("page",
         JDict(<<Item("photo", JDict(IF own = <<>> THEN <<>>
                                     ELSE <<Item("photoId", own[1])>>)),
                 Item("counts", JDict(<<>>))>>))

SiblingEntry(shape, other) ==
    Item("feed",
         IF shape = "direct" THEN JDict(<<Item("photoId", other)>>)
         ELSE IF shape = "array"
         THEN JDict(<<Item("list", JList(<<JDict(<<Item("photoId", other)>>)>>))>>)
         ELSE JDict(<<Item("photoId", JDict(<<Item("photoId", other)>>))>>))

\* Documents with two top-level entries: the first a page entry whose
\* photo or counts is or is not an object, or a decoy (an object with
\* photo and no counts, an object or an array that holds a page entry
\* one level down, a string); the second a page entry. The userName of
\* the photo tells the entries apart.
NameA == <<"a">>
NameB == <<"b">>
Photos(name) ==
    {JDict(<<Item("userName", JStr(name))>>), JStr(name), JList(<<>>)}
CountsValues == {JDict(<<>>), JInt(<<"7">>)}
Entry(key, photo, counts) ==
    Item(key, JDict(<<Item("photo", photo), Item("counts", counts)>>))
Decoys ==
    LET photo == JDict(<<Item("userName", JStr(NameA))>>)
        inner == Entry("inner", photo, JDict(<<>>))
    IN  {Item("first", JDict(<<Item("photo", photo)>>)),
         Item("first", JDict(<<inner>>)),
         Item("first", JList(<<inner.v>>)),
         Item("first", JStr(NameA))}
PageDocuments ==
    {JDict(<<Entry("first", p, c), Entry("second", q, JDict(<<>>))>>) :
        p \in Photos(NameA), c \in CountsValues, q \in Photos(NameB)}
    \cup {JDict(<<d, Entry("second", q, c)>>) :
             d \in Decoys, q \in Photos(NameB), c \in CountsValues}
    \cup {JDict(<<d>>) : d \in Decoys}
    \cup {JDict(<<>>)}

Owns == {<<>>} \cup {<<v>> : v \in Scalars}
Shapes == {"direct", "array", "nested"}

Documents ==
    {JDict(<<PageEntry(own)>>) : own \in Owns}
    \cup {JDict(<<SiblingEntry(sh, v), PageEntry(own)>>) :
             sh \in Shapes, v \in Scalars, own \in Owns}
    \cup {JDict(<<PageEntry(own), SiblingEntry(sh, v)>>) :
             sh \in Shapes, v \in Scalars, own \in Owns}
    \cup {JDict(<<SiblingEntry(sh, v)>>) : sh \in Shapes, v \in Scalars}
    \cup PageDocuments

\* ------------------------------- parse_kuaishou_api.py: the field mapper
\* lines 40-54
RECURSIVE find_numeric_photo_ids(_), FindInDict(_, _), FindInList(_, _)
FindInDict(items, n) ==
    IF n > Len(items) THEN <<>>
    ELSE LET key == items[n].k
             value == items[n].v
             found ==
                 IF key = "photoId" /\ Truthy(value)
                 THEN IF isdigit(str(value))
                         /\ Len(str(value)) >= MinNumericLen
                      THEN <<str(value)>>
                      ELSE <<>>
                 ELSE IF value.t \in {"dict", "list"}
                 THEN find_numeric_photo_ids(value)
                 ELSE <<>>
         IN  found \o FindInDict(items, n + 1)

FindInList(items, n) ==
    IF n > Len(items) THEN <<>>
    ELSE (IF items[n].t \in {"dict", "list"}
          THEN find_numeric_photo_ids(items[n]) ELSE <<>>)
         \o FindInList(items, n + 1)

find_numeric_photo_ids(obj) ==
    IF obj.t = "dict" THEN FindInDict(obj.items, 1)
    ELSE IF obj.t = "list" THEN FindInList(obj.items, 1)
    ELSE <<>>

\* lines 35-71
extract_numeric_photo_id(photo, full_data) ==
    LET numeric_ids == find_numeric_photo_ids(full_data)
        photo_id == Get(photo, "photoId")
    IN  IF numeric_ids # <<>> THEN numeric_ids[1]
        ELSE IF Truthy(photo_id) THEN str(photo_id)
        ELSE <<>>

\* lines 85-87 (gui_app.py:779-781): the first top-level value that is an
\* object with the keys 'photo' and 'counts'
IsPageMut(value) == value.t = "dict" /\ HasKey(value, "photo")
IsPage(value) ==
    value.t = "dict" /\ HasKey(value, "photo") /\ HasKey(value, "counts")
HasPage(data) == \E n \in 1..Len(data.items) : IsPage(data.items[n].v)
Page(data) ==
    LET n == CHOOSE m \in 1..Len(data.items) :
                 /\ IsPage(data.items[m].v)
                 /\ \A l \in 1..(m - 1) : ~IsPage(data.items[l].v)
    IN  data.items[n].v

\* What a call returns: None, or the identifier it reports.
\* What a call returns: None, or the identifier it reports and, for
\* extract_video_info, the '作者名字' of its dict.
RetInfo(id, userName) ==
    [none |-> FALSE, id |-> id, raised |-> FALSE, userName |-> userName]
RetNone == [RetInfo(<<>>, <<>>) EXCEPT !.none = TRUE]
RetId(id) == RetInfo(id, <<>>)
\* the call ends in an exception that reaches the caller
RetRaise == [RetInfo(<<>>, <<>>) EXCEPT !.raised = TRUE]

\* photo.get and counts.get (lines 91, 101-115) raise AttributeError when
\* the value is no object; 'except Exception' (line 124) catches it
Mapping(value) == value.t = "dict"
InfoErrors == {"AttributeError"}
CatchesInfo(e) == e \in InfoErrors

\* lines 74-126: the '作品ID' and '作者名字' of the dict returned, or None
ApiExtractVideoInfo(data) ==
    IF ~HasPage(data) THEN RetNone
    ELSE LET photo == Get(Page(data), "photo")
             counts == Get(Page(data), "counts")
         IN  IF Mapping(photo) /\ Mapping(counts)
             THEN RetInfo(extract_numeric_photo_id(photo, data),
                          str(Get(photo, "userName")))
             ELSE IF CatchesInfo("AttributeError") THEN RetNone
             ELSE RetRaise

\* gui_app.py:776-812: the dict has no key '作品ID'; 'except: pass', then
\* 'return None'
GuiExtractVideoInfo(data) ==
    IF ~HasPage(data) THEN RetNone
    ELSE LET photo == Get(Page(data), "photo")
             counts == Get(Page(data), "counts")
         IN  IF Mapping(photo) /\ Mapping(counts)
             THEN RetInfo(<<>>, str(Get(photo, "userName")))
             ELSE RetNone

\* ---------------------------------------- gui_app.py: the success path
\* The pairs of a key and a string or integer value, in the order of the
\* text of the document.
RECURSIVE Pairs(_), PairsOfDict(_, _), PairsOfList(_, _)
PairsOfDict(items, n) ==
    IF n > Len(items) THEN <<>>
    ELSE (IF items[n].v.t \in {"dict", "list"} THEN Pairs(items[n].v)
          ELSE <<items[n]>>)
         \o PairsOfDict(items, n + 1)

PairsOfList(items, n) ==
    IF n > Len(items) THEN <<>>
    ELSE Pairs(items[n]) \o PairsOfList(items, n + 1)

Pairs(obj) ==
    IF obj.t = "dict" THEN PairsOfDict(obj.items, 1)
    ELSE IF obj.t = "list" THEN PairsOfList(obj.items, 1)
    ELSE <<>>

\* line 267: re.findall(r'"photoId":\s*"?(\d{15,})"?', html) on the text of
\* the document: the digits that follow the key, with or without quote,
\* when there are 15 or more of them
RECURSIVE FindAll(_)
FindAll(pairs) ==
    IF pairs = <<>> THEN <<>>
    ELSE (IF Head(pairs).k = "photoId"
             /\ Len(DigitPrefix(Head(pairs).v.s)) >= MinNumericLen
          THEN <<DigitPrefix(Head(pairs).v.s)>> ELSE <<>>)
         \o FindAll(Tail(pairs))

\* lines 265-297: the 作品ID written with status '成功', or None when
\* extract_video_info found no page (the row is marked failed).  The dict
\* of extract_video_info (lines 794-809) has no key '作品ID', so
\* str(info.get('作品ID', '')) is the empty string.
GuiSuccessPath(data) ==
    LET numeric_photo_ids == FindAll(Pairs(data))
    IN  IF GuiExtractVideoInfo(data).none THEN RetNone
        ELSE IF numeric_photo_ids # <<>> THEN RetId(numeric_photo_ids[1])
        ELSE RetId(<<>>)

\* parse_kuaishou_api.py:214-218: info['作品ID'] = video_id
BatchFetchVideoInfo(video_id, data) ==
    IF ApiExtractVideoInfo(data).none THEN RetNone ELSE RetId(video_id)

\* main_workflow.py:57, 84-108, 140: 作品ID is no info column, the output
\* column is the identifier extracted from the link
ProcessKuaishouLinks(video_id, data) == RetId(video_id)

\* ------------------------------------------------------- the resolvers
\* A URL: its host, the segments of its path and the key/value pairs of
\* its query, each segment and value a str.
Url(host, path, query) == [host |-> host, path |-> path, query |-> query]

SegShortVideo == <<"s", "h", "o", "r", "t", "-", "v", "i", "d", "e", "o">>
SegPhoto == <<"p", "h", "o", "t", "o">>
SegFw == <<"f", "w">>
ShortSlug == <<"3", "x">>          \* non-numeric, not longer than 5
ShortNumeric == <<"4", "2">>       \* numeric, 2 digits

\* urlparse and parse_qs: 'key in params' and params[key][0]; parse_qs
\* drops the pairs with a blank value
InParams(url, key) ==
    \E n \in 1..Len(url.query) : url.query[n][1] = key /\ url.query[n][2] # <<>>
Param(url, key) ==
    LET n == CHOOSE m \in 1..Len(url.query) :
                 /\ url.query[m][1] = key /\ url.query[m][2] # <<>>
                 /\ \A l \in 1..(m - 1) :
                       ~(url.query[l][1] = key /\ url.query[l][2] # <<>>)
    IN  url.query[n][2]

\* re.search(r'/seg/([a-zA-Z0-9_-]+)', url): the segment that follows the
\* first segment seg of the path (the segments tried hold no other
\* character); <<>> stands for no match
Search(seg, url) ==
    LET hits == {n \in 1..(Len(url.path) - 1) :
                    url.path[n] = seg /\ url.path[n + 1] # <<>>}
    IN  IF hits = {} THEN <<>>
        ELSE url.path[(CHOOSE n \in hits : \A m \in hits : n <= m) + 1]

\* 'www.kuaishou.com/short-video/' in url
IsCanonicalMut(url) == FALSE
IsCanonical(url) ==
    /\ url.host = "www.kuaishou.com"
    /\ Len(url.path) >= 2 /\ url.path[1] = SegShortVideo

\* 'v.kuaishou.com' in url;  ... or 'kuaishou.com' in url
IsShortLink(url) == url.host = "v.kuaishou.com"
IsKuaishou(url) == url.host \in {"v.kuaishou.com", "www.kuaishou.com"}

\* extract_video_id.py:40-50, on the final URL of the redirect
FromFinalUrl(final) ==
    IF InParams(final, "photoId") THEN RetId(Param(final, "photoId"))
    ELSE IF Search(SegShortVideo, final) # <<>>
    THEN RetId(Search(SegShortVideo, final))
    ELSE RetNone

\* not url or not isinstance(url, str): a cell that holds no string (None,
\* NaN) is the URL NotAString, the empty string is EmptyUrl
NotAString == Url("None", <<>>, <<>>)
EmptyUrl == Url("", <<>>, <<>>)
Valid(url) == url \notin {NotAString, EmptyUrl}

\* the canonical branch: the match of /short-video/([a-zA-Z0-9_-]+), and
\* None (the last line of the function) when the pattern does not match
CanonicalId(url) ==
    IF Search(SegShortVideo, url) # <<>>
    THEN RetId(Search(SegShortVideo, url)) ELSE RetNone

\* what the request raises, and the clause 'except Exception' around it
ResolverErrors == {"Timeout", "ConnectionError"}
CatchesMut(e) == e = "ConnectionError"
Catches(e) == e \in ResolverErrors

\* the URLs for which the function issues its GET
Fetches(url) == Valid(url) /\ ~IsCanonical(url) /\ IsShortLink(url)
GuiFetches(url) ==
    Valid(url) /\ ~IsCanonical(url) /\ (IsShortLink(url) \/ IsKuaishou(url))

\* extract_video_id.py:8-56; response is what requests.get ends in
extract_video_id(url, response) ==
    IF ~Valid(url) THEN RetNone
    ELSE IF IsCanonical(url) THEN CanonicalId(url)
    ELSE IF IsShortLink(url)
    THEN IF response.ok THEN FromFinalUrl(response.final)
         ELSE IF Catches(response.exc) THEN RetNone ELSE RetRaise
    ELSE RetNone

\* gui_app.py:701-756, on the final URL of the redirect
GuiFromFinalUrl(final) ==
    LET photo_id == Param(final, "photoId")
        path_id == Search(SegPhoto, final)
        short_id == Search(SegShortVideo, final)
        share_object_id == Param(final, "shareObjectId")
    IN  IF InParams(final, "photoId") /\ ~isdigit(photo_id)
           /\ Len(photo_id) > 5
        THEN RetId(photo_id)
        ELSE IF path_id # <<>> /\ ~isdigit(path_id) THEN RetId(path_id)
        ELSE IF short_id # <<>> THEN RetId(short_id)
        ELSE IF InParams(final, "photoId") /\ isdigit(photo_id)
        THEN RetId(photo_id)
        ELSE IF InParams(final, "shareObjectId") /\ isdigit(share_object_id)
        THEN RetId(share_object_id)
        ELSE RetNone

\* gui_app.py:657-762
extract_single_video_id_async(url, response) ==
    IF ~Valid(url) THEN RetNone
    ELSE IF IsCanonical(url) THEN CanonicalId(url)
    ELSE IF IsShortLink(url) \/ IsKuaishou(url)
    THEN IF response.ok THEN GuiFromFinalUrl(response.final)
         ELSE IF Catches(response.exc) THEN RetNone ELSE RetRaise
    ELSE RetNone

\* The URLs tried: a short link; links on the canonical path, with a slug
\* or with nothing after /short-video/, with or without a numeric photoId
\* in the query; a link of the site off the canonical path with a numeric
\* photoId; a link of another site; the empty string; a cell that is no
\* string. The request ends in an exception or in a final URL, with or
\* without an identifier in its path, a photoId and a shareObjectId in
\* its query.
NumericQuery == <<<<"photoId", Numeric15>>, <<"shareObjectId", <<>>>>>>
InputUrls ==
    {Url("v.kuaishou.com", <<ShortSlug>>, <<>>),
     Url("www.kuaishou.com", <<SegShortVideo, Slug>>, <<>>),
     Url("www.kuaishou.com", <<SegShortVideo, Slug>>, NumericQuery),
     Url("www.kuaishou.com", <<SegShortVideo, <<>>>>, NumericQuery),
     Url("www.kuaishou.com", <<SegFw>>, NumericQuery),
     Url("example.com", <<SegFw>>, <<>>),
     EmptyUrl, NotAString}

FinalPaths ==
    {<<SegFw, SegPhoto, Slug>>, <<SegFw, SegPhoto, Numeric15>>,
     <<SegShortVideo, Slug>>, <<SegFw>>}
PhotoIdValues == {<<>>, Slug, ShortSlug, Numeric15, ShortNumeric}
ShareObjectIdValues == {<<>>, Numeric16, Slug}

FinalUrls ==
    {Url("www.kuaishou.com", p,
         <<<<"photoId", v>>, <<"shareObjectId", w>>>>) :
        p \in FinalPaths, v \in PhotoIdValues, w \in ShareObjectIdValues}

NoFinal == Url("", <<>>, <<>>)
Responses ==
    {[ok |-> FALSE, exc |-> e, final |-> NoFinal] : e \in ResolverErrors}
    \cup {[ok |-> TRUE, exc |-> "", final |-> f] : f \in FinalUrls}

\* -------------------------------------------------------- the extractor
\* An HTML body after the text 'window.INIT_STATE =', if it has it: a
\* sequence of tokens, "s" a JSON string, "</script>" the closing tag. The
\* objects tried have one member at most.
MaxTokens == 6            \* longest body tried, in tokens
Tokens == {"{", "}", "s", ":", "</script>"}
Texts == UNION {[1..n -> Tokens] : n \in 0..MaxTokens}
Bodies == [marker : BOOLEAN, text : Texts]

\* json.loads: the position after the value that starts at p, 0 when there
\* is no value there
RECURSIVE ParseValue(_, _)
ParseValue(t, p) ==
    IF p > Len(t) THEN 0
    ELSE IF t[p] = "s" THEN p + 1
    ELSE IF t[p] # "{" \/ p + 1 > Len(t) THEN 0
    ELSE IF t[p + 1] = "}" THEN p + 2
    ELSE IF p + 2 > Len(t) \/ t[p + 1] # "s" \/ t[p + 2] # ":" THEN 0
    ELSE LET q == ParseValue(t, p + 3)
         IN  IF q = 0 \/ q > Len(t) \/ t[q] # "}" THEN 0 ELSE q + 1
Loads(t) == ParseValue(t, 1) = Len(t) + 1

\* re.search(r'window\.INIT_STATE\s*=\s*({[\s\S]*?})\s*</script>'): the
\* group runs from "{" to the first "}" that the closing tag follows;
\* <<>> stands for no match
Matched(html) ==
    LET t == html.text
        ends == {j \in 2..(Len(t) - 1) : t[j] = "}" /\ t[j + 1] = "</script>"}
    IN  IF ~html.marker \/ ends = {} \/ t[1] # "{" THEN <<>>
        ELSE SubSeq(t, 1, CHOOSE j \in ends : \A k \in ends : j <= k)

\* except Exception as e (parse_kuaishou_api.py:30)
CatchesJsonMut(e) == FALSE
CatchesJson(e) == e = "JSONDecodeError"

\* parse_kuaishou_api.py:8-32: the text that was parsed stands for the
\* object returned
extract_json_from_html(html_content) ==
    LET json_str == Matched(html_content)
    IN  IF json_str = <<>> THEN RetNone
        ELSE IF Loads(json_str) THEN RetId(json_str)
        ELSE IF CatchesJson("JSONDecodeError") THEN RetNone ELSE RetRaise

\* gui_app.py:764-774: 'except: pass', then 'return None'
GuiExtractJsonFromHtml(html_content) ==
    LET json_str == Matched(html_content)
    IN  IF json_str # <<>> /\ Loads(json_str) THEN RetId(json_str)
        ELSE RetNone

\* --------------------------------------------------- the function calls
worker == <<fetcher, max_concurrent, is_running, main, cursor, permits, pc,
            retry_count, requests, pauses, seen, finished, df, output,
            progress, cancel>>

\* the worker before run(): no sheet is read
WorkerIdle ==
    /\ fetcher = "from_url" /\ max_concurrent = 1 /\ is_running = TRUE
    /\ main = "start" /\ cursor = 1 /\ permits = 0
    /\ pc = [i \in Rows |-> "none"]
    /\ retry_count = [i \in Rows |-> 0]
    /\ requests = [i \in Rows |-> 0]
    /\ pauses = [i \in Rows |-> 0]
    /\ seen = Untracked /\ finished = "untracked"
    /\ df = [i \in Rows |-> InputRow(NaN)]
    /\ output = <<>> /\ progress = <<>> /\ cancel = NoCancel(FALSE)

Returns(fn, value) ==
    /\ call.fn = ""
    /\ call' = [call EXCEPT !.fn = fn, !.ret = <<value>>]
    /\ UNCHANGED <<worker, window>>

InitMapper ==
    /\ WorkerIdle
    /\ window = NoWindow
    /\ \E d \in Documents :
          call = [NoCall EXCEPT !.arg = [video_id |-> Slug, data |-> d]]

CallApiExtractVideoInfo ==
    Returns("parse_kuaishou_api.extract_video_info",
            ApiExtractVideoInfo(call.arg.data))
CallGuiExtractVideoInfo ==
    Returns("WorkerThread.extract_video_info",
            GuiExtractVideoInfo(call.arg.data))
CallGuiSuccessPath ==
    Returns("WorkerThread.fetch_video_info_from_url",
            GuiSuccessPath(call.arg.data))
CallBatchFetchVideoInfo ==
    Returns("batch_fetch_video_info",
            BatchFetchVideoInfo(call.arg.video_id, call.arg.data))
CallProcessKuaishouLinks ==
    Returns("process_kuaishou_links",
            ProcessKuaishouLinks(call.arg.video_id, call.arg.data))

NextMapper ==
    \/ CallApiExtractVideoInfo
    \/ CallGuiExtractVideoInfo
    \/ CallGuiSuccessPath
    \/ CallBatchFetchVideoInfo
    \/ CallProcessKuaishouLinks
SpecMapper == InitMapper /\ [][NextMapper]_vars

InitResolver ==
    /\ WorkerIdle
    /\ window = NoWindow
    /\ \E u \in InputUrls, r \in Responses :
          call = [NoCall EXCEPT !.arg = [url |-> u, response |-> r]]

\* The call runs up to its GET, or to its return when it issues none; the
\* response then takes it to its return.
Enters(fn, fetches, value) ==
    /\ call.fn = ""
    /\ call' = IF fetches THEN [call EXCEPT !.fn = fn, !.requests = 1]
               ELSE [call EXCEPT !.fn = fn, !.ret = <<value>>]
    /\ UNCHANGED <<worker, window>>
Responds(fn, value) ==
    /\ call.fn = fn /\ call.requests = 1 /\ Len(call.ret) = 0
    /\ call' = [call EXCEPT !.ret = <<value>>]
    /\ UNCHANGED <<worker, window>>

CallExtractVideoId ==
    Enters("extract_video_id", Fetches(call.arg.url),
           extract_video_id(call.arg.url, call.arg.response))
RespondExtractVideoId ==
    Responds("extract_video_id",
             extract_video_id(call.arg.url, call.arg.response))
CallExtractSingleVideoIdAsync ==
    Enters("WorkerThread.extract_single_video_id_async",
           GuiFetches(call.arg.url),
           extract_single_video_id_async(call.arg.url, call.arg.response))
RespondExtractSingleVideoIdAsync ==
    Responds("WorkerThread.extract_single_video_id_async",
             extract_single_video_id_async(call.arg.url, call.arg.response))

NextResolver ==
    \/ CallExtractVideoId
    \/ RespondExtractVideoId
    \/ CallExtractSingleVideoIdAsync
    \/ RespondExtractSingleVideoIdAsync
SpecResolver == InitResolver /\ [][NextResolver]_vars

InitExtractor ==
    /\ WorkerIdle
    /\ window = NoWindow
    /\ \E b \in Bodies : call = [NoCall EXCEPT !.arg = [html_content |-> b]]

CallExtractJsonFromHtml ==
    Returns("extract_json_from_html",
            extract_json_from_html(call.arg.html_content))
CallGuiExtractJsonFromHtml ==
    Returns("WorkerThread.extract_json_from_html",
            GuiExtractJsonFromHtml(call.arg.html_content))

NextExtractor ==
    \/ CallExtractJsonFromHtml
    \/ CallGuiExtractJsonFromHtml
SpecExtractor == InitExtractor /\ [][NextExtractor]_vars

\* ---------------------------------------------------------------- specs
Orchestrate ==
    \/ stop
    \/ Begin
    \/ Dispatch
    \/ Gather
    \/ GatherReturn
    \/ \E i \in Rows : Acquire(i)
    \/ \E i \in Rows : Wake(i)
    \/ \E i \in Rows : Request(i)

FromUrl ==
    \/ \E i \in Rows : Non200(i)
    \/ \E i \in Rows : NoJson(i)
    \/ \E i \in Rows : NoInfo(i)
    \/ \E i \in Rows, o \in Outcomes : Parsed(i, o)
    \/ \E i \in Rows, o \in Outcomes : ParsedLogError(i, o)
    \/ \E i \in Rows : TimeoutError(i)
    \/ \E i \in Rows : ClientError(i)

\* the same responses, for pages without author name
FromUrlNullUserName ==
    \/ \E i \in Rows, o \in NullUserName : Parsed(i, o)
    \/ \E i \in Rows, o \in NullUserName : ParsedLogError(i, o)

WithId ==
    \/ \E i \in Rows : WithIdNon200(i)
    \/ \E i \in Rows : WithIdNoJson(i)
    \/ \E i \in Rows : WithIdNoInfo(i)
    \/ \E i \in Rows, o \in Outcomes : WithIdParsed(i, o)
    \/ \E i \in Rows, o \in Outcomes : WithIdParsedLogError(i, o)
    \/ \E i \in Rows : WithIdTimeoutError(i)
    \/ \E i \in Rows : WithIdClientError(i)

\* process_videos as the program runs it
Next == Orchestrate \/ FromUrl
Spec == Init /\ [][Next]_vars

\* the same run under the scheduling of the event loop: a step of
\* process_videos or of a pipeline that can be taken is taken, and every
\* request ends (in a response, a timeout or an error); stop() may or may
\* not come
Work ==
    \/ Begin \/ Dispatch \/ Gather \/ GatherReturn
    \/ \E i \in Rows : Acquire(i) \/ Wake(i) \/ Request(i)
    \/ FromUrl
SpecLive == InitProgress /\ [][Next]_vars /\ WF_vars(Work)

\* the same run, with the order of completion recorded
SpecOrder == InitOrder /\ [][Next]_vars

\* the same run, with the history of the cancellation recorded
SpecCancel == InitCancel /\ [][Next]_vars

\* the same run, the pages without author name included
NextProgress == Orchestrate \/ FromUrl \/ FromUrlNullUserName
SpecProgress == InitProgress /\ [][NextProgress]_vars

\* the same orchestration driving fetch_video_info_with_id
NextWithId == Orchestrate \/ WithId
SpecWithId == InitWithId /\ [][NextWithId]_vars

\* either fetch loop
NextBoth == Orchestrate \/ FromUrl \/ WithId
SpecBoth == InitBoth /\ [][NextBoth]_vars

\* ------------------------------------------------------------ MainWindow
\* The window's handlers run on the GUI thread, one at a time; the worker
\* threads run beside it.  The worker variables stay at WorkerIdle in these
\* runs: a thread is followed only from start() to the end of run().
InitWindow == WorkerIdle /\ call = NoCall /\ window = NoWindow

\* isRunning() of worker w
Executing(w) == window.threads[w] \in {"running", "stopping"}

\* WorkerThread(...) of line 1045: the next thread not created yet
Fresh(w) ==
    /\ window.threads[w] = "none"
    /\ \A v \in Workers : v < w => window.threads[v] # "none"

\* lines 1023-1057, reached by a click on the enabled start button; chosen
\* tells whether both file fields are filled
start_task ==
    /\ ~window.raised
    /\ window.start_btn
    /\ \E chosen \in BOOLEAN, w \in Workers :
          /\ Fresh(w)
          /\ window' = IF ~chosen THEN window
                        ELSE [window EXCEPT !.worker = w,
                                            !.threads[w] = "running",
                                            !.start_btn = FALSE,
                                            !.stop_btn = TRUE]
    /\ UNCHANGED <<worker, call>>

\* lines 1059-1071, reached by a click on the enabled stop button;
\* worker.stop() of line 55 clears the flag of a thread that still runs
stop_task ==
    /\ ~window.raised
    /\ window.stop_btn
    /\ window' =
          IF window.worker = 0 THEN window
          ELSE [window EXCEPT
                   !.threads[window.worker] =
                       IF @ = "running" THEN "stopping" ELSE @,
                   !.start_btn = TRUE,
                   !.stop_btn = FALSE,
                   !.timers = @ \cup {window.worker}]
    /\ UNCHANGED <<worker, call>>

\* lines 1073-1081, the callback of timer t: it reads self.worker when it
\* fires.  terminate() and wait(2000) end the thread or leave it running;
\* in the second case line 1080 calls kill(), which QThread does not have,
\* and the slot ends in AttributeError before line 1081; PyQt6 aborts the
\* application on an exception that leaves a slot.
force_stop_worker ==
    /\ ~window.raised
    /\ \E t \in window.timers :
          LET w == window.worker
              fired == [window EXCEPT !.timers = @ \ {t}]
          IN  IF w # 0 /\ Executing(w)
              THEN \E ended \in BOOLEAN :
                      window' =
                          IF ended
                          THEN [fired EXCEPT !.threads[w] = "ended",
                                             !.worker = 0,
                                             !.forced = @ \cup {<<t, w>>}]
                          ELSE [fired EXCEPT !.forced = @ \cup {<<t, w>>},
                                             !.raised = TRUE]
              ELSE window' = fired
    /\ UNCHANGED <<worker, call>>

\* lines 45-50 with 113-186: run() of worker w ends with task_finished
\* emitted, with error_occurred emitted, or, for a run that read the cleared
\* flag at line 115 or 140, with neither
run ==
    /\ ~window.raised
    /\ \E w \in Workers, end \in {"task_finished", "error_occurred", "cancelled"} :
          /\ Executing(w)
          /\ end = "cancelled" => window.threads[w] = "stopping"
          /\ window' = [window EXCEPT
                           !.threads[w] = "ended",
                           !.signals = IF end = "cancelled" THEN @
                                       ELSE Append(@, end)]
    /\ UNCHANGED <<worker, call>>

\* The next queued signal is signal; lines 1100-1101 and 1112-1113.
Queued(signal) ==
    window.signals # <<>> /\ Head(window.signals) = signal
Enabled ==
    [window EXCEPT !.signals = Tail(@), !.start_btn = TRUE,
                   !.stop_btn = FALSE]

\* lines 1098-1108, the slot of task_finished
task_finished ==
    /\ ~window.raised
    /\ Queued("task_finished")
    /\ window' = Enabled
    /\ UNCHANGED <<worker, call>>

\* lines 1110-1116, the slot of error_occurred
task_error ==
    /\ ~window.raised
    /\ Queued("error_occurred")
    /\ window' = Enabled
    /\ UNCHANGED <<worker, call>>

NextWindow ==
    \/ start_task
    \/ stop_task
    \/ force_stop_worker
    \/ run
    \/ task_finished
    \/ task_error
SpecWindow == InitWindow /\ [][NextWindow]_vars

\* ------------------------------------------------------------ properties
\* the pipelines inside fetch_video_info_*: they hold a semaphore permit
InFlight == Holding

Terminated(s) == s \in {Success, Failed}

\* C1: at any time at most max_concurrent record pipelines hold a permit
\* of the semaphore (are in a request or in a pause of the fetch loop).
C1_ConcurrencyBound == Cardinality(InFlight) <= max_concurrent

\* max_concurrent pipelines are in flight and another one waits
C1_Witness ==
    /\ main = "gather"
    /\ Cardinality(InFlight) = max_concurrent
    /\ \E i \in Rows : pc[i] = "created"

\* C2: no record is requested more than 3 times, no pause follows the third
\* request, and a record whose requests all timed out in a run that was
\* never cancelled ends after exactly 3 requests and 2 pauses, marked failed.
C2_RetryBudget ==
    \A i \in Rows :
        /\ requests[i] <= 3
        /\ pc[i] = "sleep" => requests[i] < 3
        /\ (pc[i] = "done" /\ seen[i] = "timeout" /\ is_running)
              => /\ requests[i] = 3
                 /\ pauses[i] = 2
                 /\ df[i].status = Failed

C2_Witness ==
    \E i \in Rows :
        /\ pc[i] = "done" /\ seen[i] = "timeout" /\ is_running
        /\ requests[i] = 3 /\ pauses[i] = 2

\* C3: a record whose responses were all non-200, in a run that was never
\* cancelled, has been requested 3 times when its pipeline ends.
C3_Non200Retried ==
    \A i \in Rows :
        (pc[i] = "done" /\ seen[i] = "http" /\ is_running)
            => requests[i] = 3

\* C4: after a 200 response without embedded JSON or without a photo/counts
\* subtree the pipeline has ended with the row marked failed (so no further
\* request follows), in either fetch loop.
C4_PayloadAbsentNotRetried ==
    \A i \in Rows :
        seen[i] \in PayloadAbsent
            => (pc[i] = "done" /\ df[i].status = Failed)

HasMetadata(row) == row.userName # NaN
HasIdentifier(row) == row.photoId \notin {None, EmptyStr}
HasReason(row) == row.reason \notin {Unset, EmptyStr}

\* C5: a row has status success exactly when its metadata fields are
\* written and its identifier is neither null nor empty.
C5_SuccessInvariant ==
    \A i \in Rows :
        df[i].status = Success <=> (HasMetadata(df[i]) /\ HasIdentifier(df[i]))

\* C6: a row has status failed exactly when its reason is non-empty and
\* none of its metadata fields (author, counts, identifier) is written.
C6_FailureInvariant ==
    \A i \in Rows :
        df[i].status = Failed
            <=> (HasReason(df[i]) /\ ~HasMetadata(df[i])
                 /\ df[i].photoId = None)

\* the one reason of the uniform failure category
NotFoundReason == "not found, deleted or removed"

\* C7: every failed row carries the one reason string, and no other reason
\* value is ever found in a row, whatever the cause and the fetch loop.
C7_UniformReason ==
    \A i \in Rows :
        /\ df[i].reason \in {Unset, EmptyStr, NotFoundReason}
        /\ df[i].status = Failed => df[i].reason = NotFoundReason

\* two rows failed for different causes: one on a response to its first
\* request, one after its third failed attempt
C7_Witness ==
    \E i, j \in Rows :
        /\ df[i].status = Failed /\ pc[i] = "done"
        /\ requests[i] = 1 /\ retry_count[i] = 0
        /\ df[j].status = Failed /\ pc[j] = "done"
        /\ requests[j] = 3 /\ retry_count[j] = 3

\* C8: the output has one row per input row, and row i holds the link of
\* input row i and nothing but the result of pipeline i: metadata of the
\* page behind link i, a status other than pending only if pipeline i
\* issued a request, and what the DataFrame holds for row i.
C8_OrderPreserved ==
    main = "finished" =>
        /\ DOMAIN output = Rows
        /\ \A i \in Rows :
              /\ output[i].seq = i
              /\ output[i].link = df[i].link
              /\ output[i].link \in {NaN, i}
              /\ output[i].userName \in {NaN, i}
              /\ output[i].userName = i => requests[i] > 0
              /\ Terminated(output[i].status) => requests[i] > 0
              /\ output[i].status = df[i].status

\* the pipelines returned in the reverse of the input order, with
\* different results
C8_Witness ==
    /\ main = "finished"
    /\ finished = "reverse"
    /\ \A i \in Rows : requests[i] > 0
    /\ output[1].status = Success /\ output[1].userName = 1
    /\ output[NumRecords].status = Failed

\* C9: when the output is prepared in a run that was never cancelled, every
\* row that has a link has status success or failed.
C9_TerminalResult ==
    (main = "finished" /\ is_running) =>
        \A i \in Rows : df[i].link # NaN => Terminated(output[i].status)

\* a row whose attempts met different outcomes, next to a row without link
C9_Witness ==
    /\ main = "finished" /\ is_running
    /\ \E i \in Rows :
          seen[i] = "other" /\ requests[i] = 3 /\ Terminated(output[i].status)
    /\ \E j \in Rows : df[j].link = NaN /\ output[j].status = Pending

\* C10: a record that had begun an attempt ends with status success or
\* failed, whenever stop() ran.
C10_InFlightTerminal ==
    \A i \in Rows :
        (pc[i] = "done" /\ requests[i] > 0) => Terminated(df[i].status)

\* C11: once stop() has cleared the flag, a record that has issued no
\* request yet never issues one.
C11_NoNewDispatch ==
    [][~is_running =>
          \A i \in Rows : requests[i] = 0 => requests'[i] = 0]_vars

\* C12: once the flag is cleared, a record that is in a request or in the
\* pause after a failed attempt issues no further request and never gets
\* past the loop condition again.
C12_NoFurtherRetries ==
    [][~is_running =>
          \A i \in Rows :
              pc[i] \in {"req", "sleep"}
                  => (requests'[i] = requests[i] /\ pc'[i] # "checked")]_vars

\* in a cancelled run a record returned from the pause that followed a
\* failed attempt, with attempts left and without a further request
C12_Witness ==
    \E i \in Rows :
        /\ ~is_running /\ pc[i] = "done"
        /\ requests[i] \in 1..(max_retries - 1)
        /\ retry_count[i] = requests[i] /\ pauses[i] = requests[i]

\* C13: after stop() at most max_concurrent rows change status, and only
\* rows whose pipeline held a permit of the semaphore when the flag was
\* cleared; every other row keeps its status.
C13_BoundedCompletion ==
    ~is_running =>
        /\ Cardinality(cancel.changed) <= max_concurrent
        /\ cancel.changed \subseteq cancel.held

\* max_concurrent rows changed status after stop() and a record that was
\* waiting for the semaphore returned with its row still pending
C13_Witness ==
    /\ ~is_running
    /\ Cardinality(cancel.changed) = max_concurrent
    /\ \E i \in Rows :
          /\ df[i].link # NaN /\ pc[i] = "done"
          /\ i \notin cancel.held /\ df[i].status = Pending

\* C14: no task ends with an exception, process_videos never ends in its
\* error clause, and the output is written only after the pipeline of every
\* row that has a link has returned.
C14_FailureIsolation ==
    /\ \A i \in Rows : pc[i] # "raised"
    /\ main # "error"
    /\ main = "finished" =>
          \A i \in Rows : df[i].link # NaN => pc[i] = "done"

\* the output is written after one record failed on its third attempt and
\* another succeeded after an exception raised while its result was recorded
C14_Witness ==
    /\ main = "finished"
    /\ \E i, j \in Rows :
          /\ df[i].status = Failed /\ retry_count[i] = max_retries
          /\ output[i].status = Failed
          /\ df[j].status = Success /\ retry_count[j] > 0 /\ pc[j] = "done"
          /\ output[j].status = Success

\* C15: the completedCount of a progress event never exceeds its totalCount
\* and is never smaller than the completedCount of the event before.
C15_ProgressMonotone ==
    [][/\ progress' # <<>> => progress'[1] <= progress'[2]
       /\ progress # <<>> => progress'[1] >= progress[1]]_vars

\* C16: a record whose first response was recorded as success has returned
\* with no attempt counted as failed, as it would if the emissions of lines
\* 301-306 did nothing.
C16_EmissionObservational ==
    \A i \in Rows :
        (requests[i] = 1 /\ df[i].status = Success)
            => (pc[i] = "done" /\ retry_count[i] = 0)

\* a call of fn has returned; what it returned
Called(fn) == call.fn = fn /\ Len(call.ret) = 1
Result == call.ret[1]

\* the photoId values of a document that are all digits and at least 15
\* characters long, in depth-first document order
RECURSIVE AllDigit(_)
AllDigit(pairs) ==
    IF pairs = <<>> THEN <<>>
    ELSE (IF Head(pairs).k = "photoId" /\ isdigit(Head(pairs).v.s)
             /\ Len(Head(pairs).v.s) >= MinNumericLen
          THEN <<Head(pairs).v.s>> ELSE <<>>)
         \o AllDigit(Tail(pairs))
NumericIds(data) == AllDigit(Pairs(data))

\* the document has a page whose photo and counts are objects; the call
\* returned a result with the identifier id
Mapped(data) ==
    /\ HasPage(data)
    /\ Get(Page(data), "photo").t = "dict"
    /\ Get(Page(data), "counts").t = "dict"
Reports(id) == ~Result.none /\ ~Result.raised /\ Result.id = id

\* C17: for a page whose document holds a numeric identifier of 15 or more
\* digits, the identifier that batch_fetch_video_info,
\* process_kuaishou_links and the GUI worker report is that numeric value,
\* not the identifier the request was made with.
C17_NumericOverridesSeed ==
    \A fn \in {"batch_fetch_video_info", "process_kuaishou_links",
               "WorkerThread.fetch_video_info_from_url"} :
        (Called(fn) /\ Mapped(call.arg.data)
                    /\ NumericIds(call.arg.data) # <<>>)
            => Reports(Head(NumericIds(call.arg.data)))

\* C18: for a document with a page in which photoId keys hold all-digit
\* values of 15 or more digits, the identifier of the mapper
\* (parse_kuaishou_api.extract_video_info, the GUI success path) is the
\* first such value in depth-first document order.
C18_FirstNumericWins ==
    \A fn \in {"parse_kuaishou_api.extract_video_info",
               "WorkerThread.fetch_video_info_from_url"} :
        (Called(fn) /\ Mapped(call.arg.data)
                    /\ NumericIds(call.arg.data) # <<>>)
            => Reports(Head(NumericIds(call.arg.data)))

\* C19: for a document with a page and without any all-digit photoId of 15
\* or more digits, the mapper reports a result (the record is a success)
\* whose identifier is the photoId of the page's photo, as a string.
C19_IdentifierFallback ==
    \A fn \in {"parse_kuaishou_api.extract_video_info",
               "WorkerThread.fetch_video_info_from_url"} :
        (Called(fn) /\ Mapped(call.arg.data)
                    /\ NumericIds(call.arg.data) = <<>>)
            => Reports(str(Get(Get(Page(call.arg.data), "photo"),
                                "photoId")))

\* the identifier in the path of a final URL: the non-numeric segment
\* after /photo/, else the segment after /short-video/
PathId(final) ==
    IF Search(SegPhoto, final) # <<>> /\ ~isdigit(Search(SegPhoto, final))
    THEN Search(SegPhoto, final)
    ELSE Search(SegShortVideo, final)

\* the priority among the candidates of a final URL
Priority(final) ==
    IF InParams(final, "photoId") /\ ~isdigit(Param(final, "photoId"))
       /\ Len(Param(final, "photoId")) > 5
    THEN RetId(Param(final, "photoId"))
    ELSE IF PathId(final) # <<>> THEN RetId(PathId(final))
    ELSE IF InParams(final, "shareObjectId")
            /\ isdigit(Param(final, "shareObjectId"))
    THEN RetId(Param(final, "shareObjectId"))
    ELSE RetNone

\* C20: for a short link that was redirected, both resolvers return the
\* photoId of the query when it is non-numeric and longer than 5
\* characters, else the identifier in the path, else a purely numeric
\* shareObjectId, else None.
C20_ResolverPriority ==
    \A fn \in {"extract_video_id",
               "WorkerThread.extract_single_video_id_async"} :
        (Called(fn) /\ IsShortLink(call.arg.url) /\ call.arg.response.ok)
            => Result = Priority(call.arg.response.final)

Resolvers ==
    {"extract_video_id", "WorkerThread.extract_single_video_id_async"}

\* a URL whose query carries an all-digit photoId of MinNumericLen digits
\* or more and whose path holds no identifier that is not numeric
CarriesNumeric(u) ==
    /\ InParams(u, "photoId") /\ isdigit(Param(u, "photoId"))
    /\ Len(Param(u, "photoId")) >= MinNumericLen
    /\ (PathId(u) = <<>> \/ isdigit(PathId(u)))

\* C21: when the final URL of a redirected short link carries such a
\* numeric photoId, and when the input URL itself carries it (the request,
\* if the resolver issues one, ending at the input URL), both resolvers
\* return that numeric value.
C21_NumericPhotoId ==
    \A fn \in Resolvers :
        Called(fn) =>
            LET url == call.arg.url
                response == call.arg.response
            IN  /\ (IsShortLink(url) /\ response.ok
                        /\ CarriesNumeric(response.final))
                    => Result = RetId(Param(response.final, "photoId"))
                /\ (Valid(url) /\ CarriesNumeric(url)
                        /\ (call.requests = 1
                              => response.ok /\ response.final = url))
                    => Result = RetId(Param(url, "photoId"))

\* C22: for a URL on the canonical path www.kuaishou.com/short-video/ no
\* resolver issues a request, the call returns at once, and it returns the
\* identifier of the path when the path has one; a request is issued only
\* for a URL that is not on the canonical path.
C22_CanonicalFastPath ==
    \A fn \in Resolvers :
        call.fn = fn =>
            LET url == call.arg.url
                onPath == /\ url.host = "www.kuaishou.com"
                          /\ Len(url.path) >= 2
                          /\ url.path[1] = SegShortVideo
            IN  /\ onPath => /\ call.requests = 0 /\ Len(call.ret) = 1
                             /\ url.path[2] # <<>>
                                   => Result = RetId(url.path[2])
                /\ call.requests > 0 => ~onPath

\* a canonical link with a numeric photoId in its query was resolved to the
\* slug of its path by the worker's resolver, without a request
C22_Witness ==
    /\ Called("WorkerThread.extract_single_video_id_async")
    /\ call.arg.url = Url("www.kuaishou.com", <<SegShortVideo, Slug>>,
                          NumericQuery)
    /\ call.requests = 0 /\ Result = RetId(Slug)

\* the places of a URL an identifier is taken from
Locations(u) ==
    {Search(SegShortVideo, u), Search(SegPhoto, u)}
    \cup (IF InParams(u, "photoId") THEN {Param(u, "photoId")} ELSE {})
    \cup (IF InParams(u, "shareObjectId")
          THEN {Param(u, "shareObjectId")} ELSE {})

\* C23: no resolver call ends in an exception; it returns None for an
\* input that is empty or no string, for a URL of another site, when the
\* request times out or fails, and when the final URL holds no identifier;
\* a value other than None is the whole of a non-empty value found in the
\* path of the canonical input URL or in the path or query of the final
\* URL.
C23_SingleFailureValue ==
    \A fn \in Resolvers :
        Called(fn) =>
            LET url == call.arg.url
                response == call.arg.response
            IN  /\ ~Result.raised
                /\ (\/ ~Valid(url)
                    \/ url.host \notin {"v.kuaishou.com", "www.kuaishou.com"}
                    \/ call.requests = 1 /\ ~response.ok
                    \/ call.requests = 1 /\ response.ok
                          /\ Locations(response.final) \subseteq {<<>>})
                   => Result = RetNone
                /\ ~Result.none
                   => /\ Result.id # <<>>
                      /\ Result.id \in
                            IF call.requests = 0
                            THEN {Search(SegShortVideo, url)}
                            ELSE Locations(response.final)

\* the request of the worker's resolver timed out and the call returned
\* None
C23_Witness ==
    /\ Called("WorkerThread.extract_single_video_id_async")
    /\ call.requests = 1 /\ call.arg.response.exc = "Timeout"
    /\ Result = RetNone

\* the text between the marker and the first closing tag, when the body
\* has both, is one JSON object
WellFormed(html) ==
    LET t == html.text
        tags == {j \in 1..Len(t) : t[j] = "</script>"}
    IN  /\ html.marker /\ tags # {}
        /\ LET between ==
                   SubSeq(t, 1, (CHOOSE j \in tags : \A k \in tags : j <= k) - 1)
           IN  between # <<>> /\ between[1] = "{" /\ Loads(between)

\* C25: no call of extract_json_from_html ends in an exception, and the
\* call returns None for every body in which the marker is absent, the
\* closing tag is absent, or the text between them is not a JSON object.
C25_ExtractorNeverRaises ==
    \A fn \in {"extract_json_from_html",
               "WorkerThread.extract_json_from_html"} :
        Called(fn) =>
            /\ ~Result.raised
            /\ ~WellFormed(call.arg.html_content) => Result = RetNone

\* the pattern matched an object cut off after a key, json.loads raised and
\* the call returned None
C25_Witness ==
    /\ Called("extract_json_from_html")
    /\ call.arg.html_content =
          [marker |-> TRUE, text |-> <<"{", "s", ":", "}", "</script>">>]
    /\ Result = RetNone

\* C26: when the run has finished without being cancelled, a row whose
\* link resolves to no identifier (its cell is empty) is marked failed
\* with a reason that is not empty, and no request was issued for it.
C26_ResolutionFailure ==
    (main = "finished" /\ is_running)
        => \A i \in Rows :
              df[i].link = NaN
                  => /\ df[i].status = Failed /\ HasReason(df[i])
                     /\ requests[i] = 0

\* C27: a request has been issued for a row only if the identifier of the
\* row was resolved before, and a row is marked success only after a
\* request.
C27_StageOrder ==
    \A i \in Rows :
        /\ requests[i] > 0 => df[i].photoId # None
        /\ df[i].status = Success => requests[i] > 0

\* C28: once the result columns exist, a step changes the row r only if it
\* is the step that ends a request of the pipeline of r; the rows of the
\* other pipelines, in flight or not, stay as they are.
C28_NoCrossRecordWrites ==
    [][\A r \in Rows :
          (df'[r] # df[r] /\ main # "start")
              => (pc[r] = "req" /\ pc'[r] # "req")]_vars

\* one pipeline has given up and marked its row failed while another was
\* in a request, and the row of the other is still pending
C28_Witness ==
    \E i, j \in Rows :
        /\ i # j /\ pc[i] = "done" /\ df[i].status = Failed
        /\ retry_count[i] = max_retries
        /\ pc[j] = "req" /\ requests[j] = 1 /\ df[j].status = Pending

\* C29: the attempts of one record follow one another: while request k + 1
\* is in flight k attempts have ended and k pauses were made; during a
\* pause and before the next request no request of the record is in
\* flight, and the pauses made are as many as the attempts ended.
C29_SequentialRetries ==
    \A i \in Rows :
        /\ pc[i] = "req"
              => requests[i] = retry_count[i] + 1 /\ pauses[i] = retry_count[i]
        /\ pc[i] \in {"sleep", "checked"}
              => requests[i] = retry_count[i] /\ pauses[i] = retry_count[i]

\* the third request of a record is in flight after two pauses, while
\* another record is in a request of its own
C29_Witness ==
    \E i, j \in Rows :
        /\ i # j /\ pc[i] = "req" /\ requests[i] = max_retries
        /\ pauses[i] = max_retries - 1 /\ pc[j] = "req"

\* the positions of the top-level values of a document that are objects
\* with a photo key and a counts key
Qualifying(data) ==
    {n \in 1..Len(data.items) :
        LET value == data.items[n].v
        IN  /\ value.t = "dict"
            /\ \E k \in 1..Len(value.items) : value.items[k].k = "photo"
            /\ \E k \in 1..Len(value.items) : value.items[k].k = "counts"}

\* C30: no call of extract_video_info ends in an exception; it returns
\* None when no top-level value of the document is an object with photo
\* and counts, wherever else such an object sits; and when the first
\* such value, in document order, has objects as photo and counts, the
\* dict returned carries the userName of that photo.
C30_TopLevelFirstMatch ==
    \A fn \in {"parse_kuaishou_api.extract_video_info",
               "WorkerThread.extract_video_info"} :
        Called(fn) =>
            LET data == call.arg.data
                tops == Qualifying(data)
                first == data.items[CHOOSE n \in tops :
                                       \A m \in tops : n <= m].v
            IN  /\ ~Result.raised
                /\ tops = {} => Result = RetNone
                /\ (tops # {} /\ Get(first, "photo").t = "dict"
                        /\ Get(first, "counts").t = "dict")
                   => /\ ~Result.none
                      /\ Result.userName =
                            str(Get(Get(first, "photo"), "userName"))

\* the first top-level value has a photo and no counts, extract_video_info
\* passed it over and returned the fields of the second
C30_Witness ==
    /\ Called("parse_kuaishou_api.extract_video_info")
    /\ Len(call.arg.data.items) = 2
    /\ call.arg.data.items[1].k = "first"
    /\ HasKey(call.arg.data.items[1].v, "photo")
    /\ Qualifying(call.arg.data) = {2}
    /\ Result.userName = NameB

\* C31: in fetch_video_info_from_url, no step issues a request for a row
\* whose status is success or changes the status or the reason of that
\* row.
C31_SuccessTerminal ==
    [][\A i \in Rows :
          df[i].status = Success
              => /\ requests'[i] = requests[i]
                 /\ df'[i].status = Success
                 /\ df'[i].reason = df[i].reason]_vars

\* C32: in fetch_video_info_with_id, a row is marked failed only by the
\* step that ends its pipeline, and no later step issues a request for it
\* or changes its status or its reason.
C32_FailedTerminal ==
    [][\A i \in Rows :
          /\ (df'[i].status = Failed /\ df[i].status # Failed)
                => pc'[i] = "done"
          /\ df[i].status = Failed
                => /\ requests'[i] = requests[i]
                   /\ df'[i].status = Failed
                   /\ df'[i].reason = df[i].reason]_vars

\* every pipeline has returned, none after more than max_retries requests,
\* and the semaphore has all its permits
AllReturned ==
    /\ \A i \in Rows : pc[i] \in {"none", "done"}
    /\ \A i \in Rows : requests[i] <= max_retries
    /\ permits = max_concurrent

\* C33: once process_videos awaits gather, gather returns, and when it has
\* returned every pipeline has ended after at most 3 requests and every
\* permit of the semaphore is back, whatever the attempts ended in and
\* whether stop() was called or not.
C33_BatchTermination ==
    (main = "gather") ~> (main = "finished" /\ AllReturned)

\* gather has returned with every permit back after a record used up its
\* three requests, in a run in which stop() was called while another
\* pipeline held a permit
C33_Witness ==
    /\ main = "finished" /\ AllReturned /\ ~is_running
    /\ \E i, j \in Rows :
          /\ i # j /\ requests[i] = max_retries /\ df[i].status = Failed
          /\ requests[j] > 0

\* C34: a run in which stop() was called before process_videos ended has
\* written no output file and emitted no task_finished, wherever the flag
\* was first read.
C34_CancelledRunUniform ==
    ~is_running => (main # "finished" /\ output = <<>>)

\* the rows of d whose status is success
succeeded(d) == Cardinality({r \in Rows : d[r].status = Success})

\* C35: the count of every progress_updated event, and the count of the
\* final summary, is the number of rows whose status is success at that
\* point.
C35_SuccessCount ==
    [][/\ progress' # progress => progress'[1] = succeeded(df')
       /\ (main' = "finished" /\ main # "finished")
             => notna(df') = succeeded(df')]_vars

\* C36: at most one WorkerThread executes run() at any time.
C36_SingleActiveWorker ==
    Cardinality({w \in Workers : Executing(w)}) <= 1

\* C37: every terminate() of force_stop_worker is called on the worker
\* that was stopped by the stop_task that scheduled the callback.
C37_ForceStopTargets ==
    \A p \in window.forced : p[1] = p[2]

====
